---------------------------- MODULE Spec2Model ----------------------------
(***************************************************************************)
(* A model of src/index.js, the content script of the scite extension:     *)
(* the eight DOI finders, their arbitration in findDoi, the mounting of    *)
(* the popup in popupDoi and the delayed start in runWithDelay.            *)
(*                                                                         *)
(* Texts are TLA+ strings handled character by character (Len, SubSeq and  *)
(* \o), so that String.replace, String.trim, String.indexOf and the six    *)
(* regular expressions of the script are computed, not assumed.            *)
(***************************************************************************)
EXTENDS Integers, Sequences, FiniteSets, TLC

VARIABLES
  hostname,   \* window.location.hostname of the page
  doc,        \* the live document: innerHTML, title and the queried elements
  poppedUp,   \* index.js:13
  docAsStr,   \* index.js:14, read once when the script is loaded
  docTitle,   \* index.js:15, read once when the script is loaded
  myHost,     \* index.js:16, read once when the script is loaded
  timer,      \* the timeout set by runWithDelay: pending or not, and its delay
  now,        \* milliseconds since the script was loaded
  mutations,  \* how often the page has changed its own content since the load
  mainCalls,  \* how often main has been entered
  lastRun,    \* what the last run of main read and did
  call        \* the last direct call of a finder or of findDoi, and its result

vars == <<hostname, doc, poppedUp, docAsStr, docTitle, myHost, timer, now,
          mutations, mainCalls, lastRun, call>>

-----------------------------------------------------------------------------
(* JavaScript values that a finder returns: a string, null, false or        *)
(* undefined.                                                               *)

JsStr(s) == [t |-> "string", v |-> s]
JsNull == [t |-> "null", v |-> ""]
JsFalse == [t |-> "false", v |-> ""]
JsUndefined == [t |-> "undefined", v |-> ""]

\* ToBoolean of such a value: only a non-empty string is truthy.
Truthy(x) == x.t = "string" /\ x.v # ""

-----------------------------------------------------------------------------
(* Strings.                                                                 *)

Min(S) == CHOOSE x \in S : \A y \in S : x <= y
Max(S) == CHOOSE x \in S : \A y \in S : x >= y

Char(s, i) == SubSeq(s, i, i)
CharsOf(s) == {Char(s, i) : i \in 1..Len(s)}

\* pat occurs in s at (1-based) position i
At(s, pat, i) == i >= 1 /\ i + Len(pat) - 1 <= Len(s)
                 /\ SubSeq(s, i, i + Len(pat) - 1) = pat

\* the first position >= i where pat occurs in s, or 0
Find(s, pat, i) ==
  LET js == {j \in i..(Len(s) - Len(pat) + 1) : At(s, pat, j)}
  IN  IF js = {} THEN 0 ELSE Min(js)

\* String.prototype.indexOf: 0-based, -1 when absent
indexOf(s, pat) == Find(s, pat, 1) - 1

\* String.prototype.includes is not used on strings by the script;
\* Array.prototype.includes on longDelayHosts is membership (see runWithDelay).

\* String.prototype.replace with a string pattern: the first occurrence only
replace(s, pat, by) ==
  LET i == Find(s, pat, 1)
  IN  IF i = 0 THEN s
      ELSE SubSeq(s, 1, i - 1) \o by \o SubSeq(s, i + Len(pat), Len(s))

WhiteSpace == {" ", "\t", "\n", "\r", "\f"}
LineTerminator == {"\n", "\r"}

\* String.prototype.trim
trim(s) ==
  LET keep == {i \in 1..Len(s) : Char(s, i) \notin WhiteSpace}
  IN  IF keep = {} THEN "" ELSE SubSeq(s, Min(keep), Max(keep))

UpperCase == "ABCDEFGHIJKLMNOPQRSTUVWXYZ"
LowerCase == "abcdefghijklmnopqrstuvwxyz"
Digits == CharsOf("0123456789")

LowerChar(c) ==
  LET i == Find(UpperCase, c, 1)
  IN  IF i = 0 THEN c ELSE Char(LowerCase, i)

RECURSIVE toLowerCase(_)
toLowerCase(s) ==
  IF s = "" THEN "" ELSE LowerChar(Char(s, 1)) \o toLowerCase(SubSeq(s, 2, Len(s)))

\* the position after the longest run of characters of class C that starts at i
RunEnd(s, i, C) ==
  LET stops == {j \in i..Len(s) : Char(s, j) \notin C}
  IN  IF stops = {} THEN Len(s) + 1 ELSE Min(stops)

\* the position after the longest run of characters outside class C from i on
RunEndNot(s, i, C) ==
  LET stops == {j \in i..Len(s) : Char(s, j) \in C}
  IN  IF stops = {} THEN Len(s) + 1 ELSE Min(stops)

-----------------------------------------------------------------------------
(* The regular expressions of the script.  Each XxxAt(s, i) is the match    *)
(* attempted at position i: whether it succeeds, and its first group.  A    *)
(* regular expression matches at the leftmost position where an attempt     *)
(* succeeds.                                                                *)

NoMatch == [ok |-> FALSE, g1 |-> ""]
Match(g) == [ok |-> TRUE, g1 |-> g]

\* /SDM.doi\s*=\s*'([^']+)'/
SdmDoiAt(s, i) ==
  IF ~(At(s, "SDM", i) /\ i + 3 <= Len(s) /\ Char(s, i + 3) \notin LineTerminator
       /\ At(s, "doi", i + 4))
  THEN NoMatch
  ELSE LET eq == RunEnd(s, i + 7, WhiteSpace)
           q  == RunEnd(s, eq + 1, WhiteSpace)
           e  == RunEndNot(s, q + 1, {"'"})
       IN  IF At(s, "=", eq) /\ At(s, "'", q) /\ e > q + 1 /\ e <= Len(s)
           THEN Match(SubSeq(s, q + 1, e - 1))
           ELSE NoMatch

\* /'doi':'([^']+)'/
IeeeDoiAt(s, i) ==
  IF ~At(s, "'doi':'", i) THEN NoMatch
  ELSE LET e == RunEndNot(s, i + 7, {"'"})
       IN  IF e > i + 7 /\ e <= Len(s) THEN Match(SubSeq(s, i + 7, e - 1))
           ELSE NoMatch

NberLabel == "Document Object Identifier (DOI): "

\* /Document Object Identifier \(DOI\): (10.*?)<\/p>/
NberDoiAt(s, i) ==
  LET c == i + Len(NberLabel)
  IN  IF ~(At(s, NberLabel, i) /\ At(s, "10", c)) THEN NoMatch
      ELSE LET e == Find(s, "</p>", c + 2)
           IN  IF e > 0 /\ RunEndNot(s, c + 2, LineTerminator) >= e
               THEN Match(SubSeq(s, c, e - 1))
               ELSE NoMatch

PsycnetPrefix == "href='/doi/10."

\* /href='\/doi\/10\.(.+)/
PsycnetDoiAt(s, i) ==
  LET c == i + Len(PsycnetPrefix)
      e == RunEndNot(s, c, LineTerminator)
  IN  IF At(s, PsycnetPrefix, i) /\ e > c THEN Match(SubSeq(s, c, e - 1))
      ELSE NoMatch

\* /doi\.org\/(.+)/
DoiOrgAt(s, i) ==
  LET c == i + Len("doi.org/")
      e == RunEndNot(s, c, LineTerminator)
  IN  IF At(s, "doi.org/", i) /\ e > c THEN Match(SubSeq(s, c, e - 1))
      ELSE NoMatch

\* [-._;()\/:A-Z0-9] under the i flag
SuffixClass ==
  CharsOf("-._;()/:") \cup CharsOf(UpperCase) \cup CharsOf(LowerCase) \cup Digits

\* /(10.\d{4,9}\/[-._;()\/:A-Z0-9]+)/ig
CrossrefAt(s, i) ==
  IF ~(At(s, "10", i) /\ i + 2 <= Len(s) /\ Char(s, i + 2) \notin LineTerminator)
  THEN NoMatch
  ELSE LET d == RunEnd(s, i + 3, Digits)
           n == d - (i + 3)
           e == RunEnd(s, d + 1, SuffixClass)
       IN  IF n >= 4 /\ n <= 9 /\ At(s, "/", d) /\ e > d + 1
           THEN Match(SubSeq(s, i, e - 1))
           ELSE NoMatch

ReAt(re, s, i) ==
  CASE re = "sdm"      -> SdmDoiAt(s, i)
    [] re = "ieee"     -> IeeeDoiAt(s, i)
    [] re = "nber"     -> NberDoiAt(s, i)
    [] re = "psycnet"  -> PsycnetDoiAt(s, i)
    [] re = "doiorg"   -> DoiOrgAt(s, i)
    [] re = "crossref" -> CrossrefAt(s, i)

\* RegExp.prototype.exec (and String.prototype.match) from the start of s: the
\* leftmost match, or no match.
exec(re, s) ==
  LET starts == {i \in 1..Len(s) : ReAt(re, s, i).ok}
  IN  IF starts = {} THEN NoMatch ELSE ReAt(re, s, Min(starts))

-----------------------------------------------------------------------------
(* The finders.  Those that query the element tree read the live document;  *)
(* those that search text read docAsStr and docTitle.                       *)

\* runRegexOnDoc(re, host); host = "" stands for the omitted argument
runRegexOnDocAnyHost(re, host) ==
  LET m == exec(re, docAsStr)
  IN  IF m.ok THEN JsStr(m.g1) ELSE JsFalse

runRegexOnDoc(re, host) ==
  IF host = "" \/ host = myHost
  THEN LET m == exec(re, docAsStr)
       IN  IF m.ok THEN JsStr(m.g1) ELSE JsFalse
  ELSE JsFalse

doiMetaNames ==
  {"citation_doi", "doi", "dc.doi", "dc.identifier", "dc.identifier.doi",
   "bepress_citation_doi", "rft_id", "dcsext.wt_doi"}

\* the body of the forEach callback up to the computation of doiCandidate:
\* whether the element gets that far (it has a name, the name is listed, the
\* scheme is empty or 'doi')
metaPasses(myMeta) ==
  /\ myMeta.name # ""
  /\ toLowerCase(myMeta.name) \in doiMetaNames
  /\ ~(myMeta.scheme # "" /\ myMeta.scheme # "doi")

\* myMeta.content.replace('doi:', '').trim()
doiCandidate(myMeta) == trim(replace(myMeta.content, "doi:", ""))

\* the forEach over metas, from element i on, with the variable doi so far
\* ("" stands for the unassigned variable: both are falsy in `if (!doi)`)
RECURSIVE metaScanFirstWins(_, _, _)
metaScanFirstWins(metas, i, doi) ==
  IF i > Len(metas) THEN doi
  ELSE IF metaPasses(metas[i]) /\ indexOf(doiCandidate(metas[i]), "10.") = 0
            /\ doi = ""
       THEN metaScanFirstWins(metas, i + 1, doiCandidate(metas[i]))
       ELSE metaScanFirstWins(metas, i + 1, doi)

RECURSIVE metaScan(_, _, _)
metaScan(metas, i, doi) ==
  IF i > Len(metas) THEN doi
  ELSE IF metaPasses(metas[i]) /\ indexOf(doiCandidate(metas[i]), "10.") = 0
       THEN metaScan(metas, i + 1, doiCandidate(metas[i]))
       ELSE metaScan(metas, i + 1, doi)

findDoiFromMetaTags ==
  LET doi == metaScan(doc.metas, 1, "")
  IN  IF doi = "" THEN JsNull ELSE JsStr(doi)

\* new Set(dataDoiValues).size
numUniqueDois(dataDoiValues) ==
  Cardinality({dataDoiValues[i] : i \in 1..Len(dataDoiValues)})

findDoiFromDataDoiAttributesByLength ==
  LET dataDoiValues == doc.dataDoiNodes
  IN  IF Len(dataDoiValues) = 1 THEN JsStr(dataDoiValues[1]) ELSE JsNull

findDoiFromDataDoiAttributes ==
  LET dataDoiValues == doc.dataDoiNodes
  IN  IF numUniqueDois(dataDoiValues) = 1 THEN JsStr(dataDoiValues[1])
      ELSE JsNull

findDoiFromScienceDirect ==
  IF indexOf(myHost, "sciencedirect") < 0 THEN JsNull
  ELSE LET doi == runRegexOnDoc("sdm", "")
       IN  IF Truthy(doi) THEN doi
           ELSE IF Len(doc.doiLinks) > 0 /\ exec("doiorg", doc.doiLinks[1]).ok
                THEN JsStr(exec("doiorg", doc.doiLinks[1]).g1)
                ELSE JsUndefined

findDoiFromIeee == runRegexOnDoc("ieee", "ieeexplore.ieee.org")

findDoiFromNumber == runRegexOnDoc("nber", "www.nber.org")

findDoiFromPubmed ==
  IF indexOf(myHost, "www.ncbi.nlm.nih.gov") < 0 THEN JsNull
  ELSE IF Len(doc.pubmedLinks) > 0 THEN JsStr(doc.pubmedLinks[1])
       ELSE JsUndefined

findDoiFromPsycnet == runRegexOnDoc("psycnet", "psycnet.apa.org")

\* docTitle.match(re) with the g flag and a regular expression made by this
\* call: the search starts at the beginning of the title, and doi[0] is the
\* leftmost match
titleMatch == exec("crossref", docTitle)

\* the same search with one regular expression object shared by all calls and
\* used with exec: after a match the next call resumes behind it, and the call
\* after a failed search starts over
findDoiFromTitleSharedRegex ==
  IF titleMatch.ok /\ call.n % 2 = 0 THEN JsStr(titleMatch.g1) ELSE JsNull

findDoiFromTitle ==
  IF titleMatch.ok THEN JsStr(titleMatch.g1) ELSE JsNull

doiFinderFunctions ==
  <<"MetaTags", "DataDoiAttributes", "ScienceDirect", "Ieee", "Number",
    "Psycnet", "Pubmed", "Title">>

\* doiFinderFunctions[i]()
Finder(f) ==
  CASE f = "MetaTags"          -> findDoiFromMetaTags
    [] f = "DataDoiAttributes" -> findDoiFromDataDoiAttributes
    [] f = "ScienceDirect"     -> findDoiFromScienceDirect
    [] f = "Ieee"              -> findDoiFromIeee
    [] f = "Number"            -> findDoiFromNumber
    [] f = "Psycnet"           -> findDoiFromPsycnet
    [] f = "Pubmed"            -> findDoiFromPubmed
    [] f = "Title"             -> findDoiFromTitle

\* the for loop of findDoi from index i on; invoked lists the finders called
RECURSIVE findDoiLoopNoStop(_, _, _)
findDoiLoopNoStop(i, invoked, found) ==
  IF i > Len(doiFinderFunctions)
  THEN [ret |-> found, invoked |-> invoked]
  ELSE LET myDoi == Finder(doiFinderFunctions[i])
       IN  findDoiLoopNoStop(i + 1, Append(invoked, doiFinderFunctions[i]),
                             IF Truthy(myDoi) THEN myDoi ELSE found)

RECURSIVE findDoiLoop(_, _)
findDoiLoop(i, invoked) ==
  IF i > Len(doiFinderFunctions)
  THEN [ret |-> JsUndefined, invoked |-> invoked]
  ELSE LET myDoi == Finder(doiFinderFunctions[i])
       IN  IF Truthy(myDoi)
           THEN [ret |-> myDoi, invoked |-> Append(invoked, doiFinderFunctions[i])]
           ELSE findDoiLoop(i + 1, Append(invoked, doiFinderFunctions[i]))

findDoiNoStop == findDoiLoopNoStop(1, <<>>, JsUndefined)

findDoi == findDoiLoop(1, <<>>)

-----------------------------------------------------------------------------
(* popupDoi, main and runWithDelay.                                         *)

\* doc.popups lists, per #scite-popup-app node appended to the document, the
\* DOI its Tally was rendered with.
popupDoiUnguarded(doi) ==
  /\ doc' = [doc EXCEPT !.popups = Append(@, doi)]
  /\ poppedUp' = TRUE

popupDoi(doi) ==
  IF poppedUp
  THEN UNCHANGED <<doc, poppedUp>>
  ELSE /\ doc' = [doc EXCEPT !.popups = Append(@, doi)]
       /\ poppedUp' = TRUE

\* lastRun records what this run read (the texts findDoi searched, beside the
\* texts of the live document at that moment) and what findDoi returned.
main ==
  /\ mainCalls' = mainCalls + 1
  /\ lastRun' = [doi |-> findDoi.ret, invoked |-> findDoi.invoked, at |-> now,
                 markup |-> docAsStr, title |-> docTitle,
                 liveMarkup |-> doc.innerHTML, liveTitle |-> doc.title]
  /\ IF Truthy(findDoi.ret) THEN popupDoi(findDoi.ret.v)
     ELSE UNCHANGED <<doc, poppedUp>>

ShortDelay == 200
LongDelay == 3000
longDelayHosts == {"psycnet.apa.org"}

\* the delay runWithDelay passes to setTimeout
delayAlwaysShort(host) == ShortDelay

delay(host) == IF host \in longDelayHosts THEN LongDelay ELSE ShortDelay

\* The state once the script has been evaluated on a page (lines 13-16, and
\* runWithDelay called on line 232).
Loaded(h, d) ==
  /\ hostname = h
  /\ doc = d
  /\ poppedUp = FALSE
  /\ docAsStr = d.innerHTML
  /\ docTitle = d.title
  /\ myHost = h
  /\ timer = [pending |-> TRUE, delay |-> delay(h)]
  /\ now = 0
  /\ mutations = 0
  /\ mainCalls = 0
  /\ lastRun = [doi |-> JsUndefined, invoked |-> <<>>, at |-> 0,
                markup |-> "", title |-> "", liveMarkup |-> "", liveTitle |-> ""]
  /\ call = [fn |-> "none", ret |-> JsUndefined, invoked |-> <<>>, n |-> 0]

-----------------------------------------------------------------------------
(* Pages.                                                                   *)

MaxMetas == 2
MaxDataNodes == 3
MaxMutations == 2
MaxMainCalls == 3
MaxFindDoiCalls == 2

SeqsUpTo(S, n) == UNION {[1..k -> S] : k \in 0..n}

Hosts ==
  {"www.sciencedirect.com", "ieeexplore.ieee.org", "www.nber.org",
   "psycnet.apa.org", "www.ncbi.nlm.nih.gov", "example.org",
   "ieeexplore.ieee.org.proxy.example.edu"}

Meta(n, s, c) == [name |-> n, scheme |-> s, content |-> c]

MetaElems ==
  {Meta("citation_doi", "", "10.1234/abc"),
   Meta("DC.Identifier", "doi", "doi: 10.5555/xyz "),
   Meta("dc.identifier", "publisher-id", "10.1177/sage"),
   Meta("description", "", "10.9999/described"),
   Meta("", "", "10.8888/unnamed"),
   Meta("rft_id", "", "info:doi/10.7777/rft"),
   Meta("doi", "", "10.1000/doi:5"),
   Meta("citation_doi", "", "")}

DataValues == {"", "10.5555/data", "10.6666/other"}

SdmMarkup == "<script>SDM.doi = '10.1016/j.foo.2016.01.001';</script>"
IeeeMarkup == "<script>x={'doi':'10.1109/5.771073'}</script>"
NberMarkup == "<p>Document Object Identifier (DOI): 10.3386/w23298</p>"
PsycnetMarkup == "<a href='/doi/10.1037/0022-3514.78.1.1'>Full text</a>"
AllMarkup == SdmMarkup \o IeeeMarkup \o NberMarkup \o "\n" \o PsycnetMarkup

Markups == {"", SdmMarkup, IeeeMarkup, NberMarkup, PsycnetMarkup, AllMarkup}

JamaTitle == "Study of X (doi: 10.1001/jama.2020.1234)"
Titles == {"", "An article", JamaTitle, "10.1000/1 and 10.12345/b"}

DoiLinks == {<<>>, <<"https://doi.org/10.1016/j.joi.2009.08.001">>, <<"DOI">>}
PubmedLinks == {<<>>, <<"10.1093/nar/gkm054">>, <<"">>}

Doc(markup, title, metas, data, links, pubmed) ==
  [innerHTML |-> markup, title |-> title, metas |-> metas,
   dataDoiNodes |-> data, doiLinks |-> links, pubmedLinks |-> pubmed,
   popups |-> <<>>]

EmptyDoc == Doc("", "", <<>>, <<>>, <<>>, <<>>)

\* pages on which several finders succeed at once
ArbDocs ==
  {Doc(m, t, me, d, l, p) :
     m \in {"", AllMarkup}, t \in {"", JamaTitle},
     me \in {<<>>, <<Meta("citation_doi", "", "10.1234/abc")>>},
     d \in {<<>>, <<"10.5555/data">>},
     l \in {<<>>, <<"https://doi.org/10.1016/j.joi.2009.08.001">>},
     p \in {<<>>, <<"10.1093/nar/gkm054">>}}

MetaDocs == {Doc("", "", me, <<>>, <<>>, <<>>) : me \in SeqsUpTo(MetaElems, MaxMetas)}
DataDocs == {Doc("", "", <<>>, d, <<>>, <<>>) : d \in SeqsUpTo(DataValues, MaxDataNodes)}
TextDocs == {Doc(m, "", <<>>, <<>>, l, p) : m \in Markups, l \in DoiLinks, p \in PubmedLinks}
TitleDocs == {Doc("", t, <<>>, <<>>, <<>>, <<>>) : t \in Titles}

UnitPages ==
  ((ArbDocs \cup TextDocs) \X Hosts)
  \cup ((MetaDocs \cup DataDocs \cup TitleDocs) \X {"example.org"})

\* what a page holds when the script is loaded, or puts in place later
LiveDocs ==
  {EmptyDoc,
   Doc(PsycnetMarkup, "", <<>>, <<>>, <<>>, <<>>),
   Doc("", JamaTitle, <<>>, <<>>, <<>>, <<>>),
   Doc("", "", <<Meta("citation_doi", "", "10.1234/abc")>>, <<>>, <<>>, <<>>),
   Doc("", "", <<>>, <<"10.5555/data">>, <<>>, <<>>)}

LiveHosts == {"psycnet.apa.org", "example.org"}

Instants == {0, ShortDelay - 1, ShortDelay, LongDelay - 1, LongDelay, LongDelay + 1}

-----------------------------------------------------------------------------
(* The script on a page: the page may go on changing its content, time      *)
(* passes, and the timeout calls main.                                      *)

Init == \E h \in LiveHosts, d \in LiveDocs : Loaded(h, d)

\* the page replaces its own content (a single-page app filling itself in)
Populate ==
  /\ mutations < MaxMutations
  /\ \E d \in LiveDocs :
       /\ d # [doc EXCEPT !.popups = <<>>]
       /\ doc' = [d EXCEPT !.popups = doc.popups]
  /\ mutations' = mutations + 1
  /\ UNCHANGED <<hostname, poppedUp, docAsStr, docTitle, myHost, timer, now,
                 mainCalls, lastRun, call>>

Tick ==
  /\ \E t \in Instants : t > now /\ now' = t
  /\ UNCHANGED <<hostname, doc, poppedUp, docAsStr, docTitle, myHost, timer,
                 mutations, mainCalls, lastRun, call>>

\* setTimeout(main, delay): the timeout is due once the delay is over, and it
\* is spent when it runs
TimerDue ==
  /\ timer.pending
  /\ now >= timer.delay
  /\ timer' = [timer EXCEPT !.pending = FALSE]

\* the due timeout calls main
TimerFires ==
  /\ TimerDue
  /\ main
  /\ UNCHANGED <<hostname, docAsStr, docTitle, myHost, now, mutations, call>>

Next == Populate \/ Tick \/ TimerFires

Spec == Init /\ [][Next]_vars

\* the browser lets time pass and runs a timeout that is due
SpecLive == Spec /\ WF_vars(Tick) /\ WF_timer(TimerDue)

-----------------------------------------------------------------------------
(* main called any number of times on a page that changes between calls.    *)

CallMain ==
  /\ mainCalls < MaxMainCalls
  /\ main
  /\ UNCHANGED <<hostname, docAsStr, docTitle, myHost, timer, now, mutations,
                 call>>

NextCalls == CallMain \/ Populate

SpecCalls == Init /\ [][NextCalls]_vars

-----------------------------------------------------------------------------
(* The finders and findDoi called directly on a page that does not change.  *)

InitUnit == \E p \in UnitPages : Loaded(p[2], p[1])

CallFinder ==
  /\ \E f \in {doiFinderFunctions[i] : i \in 1..Len(doiFinderFunctions)} :
       call' = [fn |-> f, ret |-> Finder(f), invoked |-> <<f>>, n |-> call.n]
  /\ UNCHANGED <<hostname, doc, poppedUp, docAsStr, docTitle, myHost, timer,
                 now, mutations, mainCalls, lastRun>>

CallFindDoi ==
  /\ call.n < MaxFindDoiCalls
  /\ call' = [fn |-> "findDoi", ret |-> findDoi.ret,
              invoked |-> findDoi.invoked, n |-> call.n + 1]
  /\ UNCHANGED <<hostname, doc, poppedUp, docAsStr, docTitle, myHost, timer,
                 now, mutations, mainCalls, lastRun>>

NextUnit == CallFinder \/ CallFindDoi

SpecUnit == InitUnit /\ [][NextUnit]_vars

-----------------------------------------------------------------------------
(* Properties.  A finder "reports Found" when findDoi takes its value as a  *)
(* DOI, that is when the value is truthy (index.js:183).                    *)

Found(x) == Truthy(x)

ClaimedOrder ==
  <<"MetaTags", "DataDoiAttributes", "ScienceDirect", "Ieee", "Number",
    "Psycnet", "Pubmed", "Title">>

\* C1: findDoi returns the value of the first finder, in the order meta-tag,
\* data-attribute, ScienceDirect, IEEE, NBER, Psycnet, Pubmed, title, that
\* reports Found, it calls the finders up to that one and no other, and it
\* returns nothing exactly when all eight report NotFound.
C1_FirstFoundWins ==
  call.fn = "findDoi" =>
    LET found == {k \in 1..Len(ClaimedOrder) : Found(Finder(ClaimedOrder[k]))}
    IN  IF found = {}
        THEN ~Found(call.ret) /\ call.invoked = ClaimedOrder
        ELSE /\ call.ret = Finder(ClaimedOrder[Min(found)])
             /\ call.invoked = SubSeq(ClaimedOrder, 1, Min(found))

\* the meta tag and the title each give a DOI, two different ones, and findDoi
\* has returned the meta tag's after calling the meta-tag finder only
C1_Witness ==
  /\ call.fn = "findDoi"
  /\ Found(findDoiFromMetaTags) /\ Found(findDoiFromTitle)
  /\ findDoiFromMetaTags # findDoiFromTitle
  /\ call.ret = findDoiFromMetaTags
  /\ call.invoked = <<"MetaTags">>

\* the host scope of a host-scoped finder: the page's hostname matches it when
\* it equals or contains this text
HostScope(f) ==
  CASE f = "ScienceDirect" -> "sciencedirect"
    [] f = "Ieee"          -> "ieeexplore.ieee.org"
    [] f = "Number"        -> "www.nber.org"
    [] f = "Psycnet"       -> "psycnet.apa.org"
    [] f = "Pubmed"        -> "www.ncbi.nlm.nih.gov"

HostScoped == {"ScienceDirect", "Ieee", "Number", "Psycnet", "Pubmed"}

\* C2: a host-scoped finder reports NotFound on every page whose hostname does
\* not match its scope, whatever the markup holds; the markup with
\* SDM.doi = '10.1016/j.foo.2016.01.001'; gives that DOI on
\* www.sciencedirect.com and nothing elsewhere.
C2_HostScoped ==
  /\ (call.fn \in HostScoped /\ indexOf(hostname, HostScope(call.fn)) < 0)
       => ~Found(call.ret)
  /\ (call.fn = "ScienceDirect" /\ doc.innerHTML = SdmMarkup)
       => IF hostname = "www.sciencedirect.com"
          THEN call.ret = JsStr("10.1016/j.foo.2016.01.001")
          ELSE ~Found(call.ret)

\* the IEEE finder was called on another host although the markup holds its
\* pattern, and found nothing
C2_Witness ==
  /\ call.fn = "Ieee"
  /\ hostname = "example.org"
  /\ exec("ieee", doc.innerHTML).ok
  /\ call.ret = JsFalse

\* C3: the widget is mounted at most once, only by a call of main in which
\* findDoi found a DOI (and with that DOI); once poppedUp is true it stays
\* true and nothing more is appended to the page.
C3_MountedOnce ==
  [][ /\ Len(doc'.popups) <= 1
      /\ (doc'.popups # doc.popups)
           => /\ mainCalls' = mainCalls + 1
              /\ Found(lastRun'.doi)
              /\ doc'.popups = Append(doc.popups, lastRun'.doi.v)
      /\ poppedUp => (poppedUp' /\ doc'.popups = doc.popups) ]_vars

\* main has run again after the widget was mounted and has found another DOI
\* than the mounted one, and the page still holds the one widget
C3_Witness ==
  /\ mainCalls >= 2
  /\ poppedUp
  /\ Len(doc.popups) = 1
  /\ Found(lastRun.doi)
  /\ lastRun.doi.v # doc.popups[1]

\* C4: the markup and the title that a run of main searches are those of the
\* page at the moment of that run.
C4_SnapshotAtInvocation ==
  mainCalls > 0 =>
    /\ lastRun.markup = lastRun.liveMarkup
    /\ lastRun.title = lastRun.liveTitle

\* the identifier in the path of the first link to /doi/10.
LinkPathDoi(s) ==
  LET c == Find(s, PsycnetPrefix, 1) + Len("href='/doi/")
  IN  SubSeq(s, c, RunEndNot(s, c, {"'"}) - 1)

\* C5: what the Psycnet finder reports as found begins with "10." and is the
\* identifier of the link path.
C5_PsycnetCompleteDoi ==
  (call.fn = "Psycnet" /\ Found(call.ret))
    => /\ At(call.ret.v, "10.", 1)
       /\ call.ret.v = LinkPathDoi(docAsStr)

DataDoiValueSet == {doc.dataDoiNodes[i] : i \in 1..Len(doc.dataDoiNodes)}

\* C6 as claimed: the data-attribute scan reports Found(v) if and only if the
\* data-doi values have exactly one distinct value v.
C6_ExactlyOneDistinct ==
  call.fn = "DataDoiAttributes" =>
    /\ Found(call.ret) <=> Cardinality(DataDoiValueSet) = 1
    /\ Found(call.ret) => DataDoiValueSet = {call.ret.v}

\* C6 as amended: the data-attribute scan reports Found(v) if and only if the
\* data-doi values have exactly one distinct value v and v is not empty.
C6_ExactlyOneDistinctNonEmpty ==
  call.fn = "DataDoiAttributes" =>
    /\ Found(call.ret) <=>
         (Cardinality(DataDoiValueSet) = 1 /\ DataDoiValueSet # {""})
    /\ Found(call.ret) => DataDoiValueSet = {call.ret.v}

\* three elements share one value, and the scan has reported it
C6_Witness ==
  /\ call.fn = "DataDoiAttributes"
  /\ Len(doc.dataDoiNodes) = 3
  /\ Cardinality(DataDoiValueSet) = 1
  /\ call.ret = JsStr(doc.dataDoiNodes[1])
  /\ Found(call.ret)

\* a meta element with a listed name, passing the scheme check, whose stripped
\* content begins with "10."
Qualifies(m) ==
  /\ toLowerCase(m.name) \in
       {"citation_doi", "doi", "dc.doi", "dc.identifier", "dc.identifier.doi",
        "bepress_citation_doi", "rft_id", "dcsext.wt_doi"}
  /\ m.scheme \in {"", "doi"}
  /\ At(doiCandidate(m), "10.", 1)

\* C7: the meta-tag scan returns the value accepted from the last qualifying
\* element in document order, whatever follows that element, and nothing when
\* no element qualifies.
C7_LastWins ==
  call.fn = "MetaTags" =>
    LET q == {i \in 1..Len(doc.metas) : Qualifies(doc.metas[i])}
    IN  IF q = {} THEN call.ret = JsNull
        ELSE call.ret = JsStr(doiCandidate(doc.metas[Max(q)]))

\* two qualifying elements with different values, and the scan has returned
\* the second one's
C7_Witness ==
  /\ call.fn = "MetaTags"
  /\ Len(doc.metas) = 2
  /\ Qualifies(doc.metas[1]) /\ Qualifies(doc.metas[2])
  /\ doiCandidate(doc.metas[1]) # doiCandidate(doc.metas[2])
  /\ call.ret = JsStr(doiCandidate(doc.metas[2]))

\* s without a leading "doi:"
StripLeadingDoi(s) == IF At(s, "doi:", 1) THEN SubSeq(s, 5, Len(s)) ELSE s

\* C8: what the meta-tag scan reports as found begins with "10." and is the
\* content, with a leading "doi:" removed and the whitespace around it
\* trimmed (in either order), of an element with a listed name whose scheme
\* is absent or "doi".
C8_StrippedContent ==
  (call.fn = "MetaTags" /\ Found(call.ret)) =>
    /\ At(call.ret.v, "10.", 1)
    /\ \E i \in 1..Len(doc.metas) :
         /\ toLowerCase(doc.metas[i].name) \in doiMetaNames
         /\ doc.metas[i].scheme \in {"", "doi"}
         /\ call.ret.v \in {trim(StripLeadingDoi(doc.metas[i].content)),
                            trim(StripLeadingDoi(trim(doc.metas[i].content)))}

C10_OnceAfterDelay ==
  /\ [](/\ mainCalls <= 1
        /\ timer.delay = (IF hostname = "psycnet.apa.org" THEN 3000 ELSE 200)
        /\ timer.pending <=> mainCalls = 0
        /\ mainCalls = 1 => lastRun.at >= timer.delay)
  /\ <>(mainCalls = 1)

\* on psycnet.apa.org main has run, found nothing, and no timeout is pending
C10_Witness ==
  /\ hostname = "psycnet.apa.org"
  /\ mainCalls = 1
  /\ lastRun.at >= 3000
  /\ ~Found(lastRun.doi)
  /\ ~timer.pending

=============================================================================
